---- MODULE Spec2Model ----
(***************************************************************************)
(* Model of the balanced spatial-index construction subsystem of           *)
(* "Assignment 3": the order-statistics BinarySearchTree (bst.py), the     *)
(* Percentiles container (ratio.py), the ThreeDeeBeeTree                   *)
(* (threedeebeetree.py) and make_ordering (balancing.py).                  *)
(*                                                                         *)
(* Trees are nested records; None is the empty tuple.  The Python code     *)
(* mutates nodes in place, so every *_aux operator returns the node as it  *)
(* is left by the call together with a flag telling whether the call       *)
(* raised: a raise keeps every in-place mutation made before it.           *)
(***************************************************************************)
EXTENDS Integers, Sequences, FiniteSets

VARIABLES
    root, length, last,          \* a BinarySearchTree and the last operation on it
    stored,                      \* the <<key, item>> pairs inserted and not deleted since
    troot, tlength, tlast,       \* a ThreeDeeBeeTree and the last operation on it
    tinserted,                   \* the points inserted into it, in order
    tcall,                       \* the call of insert_aux in progress, if any
    coordinate_list, ordering,   \* the argument of make_ordering and its outcome
    stack,                       \* the calls of _make_ordering_aux in progress
    actions, end,                \* a ReplayTracker
    grid,                        \* the calls made on the Grid, in order
    rlast,                       \* the last operation on the ReplayTracker
    added                        \* the entries added to it and not yet played

bstVars == <<root, length, last, stored>>

tdbtVars == <<troot, tlength, tlast, tinserted, tcall>>

orderingVars == <<coordinate_list, ordering, stack>>

replayVars == <<actions, end, grid, rlast, added>>

vars == <<root, length, last, stored, troot, tlength, tlast, tinserted, tcall,
          coordinate_list, ordering, stack, actions, end, grid, rlast, added>>

(***************************************************************************)
(* Bounds of the model.                                                    *)
(***************************************************************************)
\* keys of the BinarySearchTree are drawn from 1..MaxKey
MaxKey == 4

Keys == 1..MaxKey

\* payloads: None is what Percentiles.add_point stores, "A" a real item
Items == {"None", "A"}

\* number of inserts made into the ThreeDeeBeeTree
MaxInserts == 4

\* the points inserted and looked up: the corners of the unit cube, so that
\* on every axis a point is below, at or above the coordinate of another
Coords == {0, 1}

Points == Coords \X Coords \X Coords

\* the points of the example at the end of threedeebeetree.py, in its order
ExamplePoints == <<<<3, 3, 3>>, <<1, 5, 2>>, <<4, 3, 1>>, <<5, 4, 0>>>>

\* make_ordering is called on lists of 0..MaxPoints points
MaxPoints == 18

\* the coordinates of the i-th point of a list are multiples of i modulo 23,
\* one multiplier in 1..MaxMult per axis
MaxMult == 3

\* percentages handed to Percentiles.ratio, in tenths of a percent
\* (0%, 12.5%, 25%, 50%); 12.5 is the value balancing.py uses
Percents == {0, 125, 250, 500}

None == <<>>

(***************************************************************************)
(* node.TreeNode and bst.BinarySearchTree                                  *)
(***************************************************************************)
TreeNode(key, item) ==
    [key |-> key, item |-> item, subtree_size |-> 1, left |-> None, right |-> None]

is_leaf(current) == current.left = None /\ current.right = None

RECURSIVE get_minimal(_)
get_minimal(current) ==
    IF current.left = None THEN current ELSE get_minimal(current.left)

\* mutant: the successor is looked for from current instead of current.right
get_successor_from_current(current) ==
    IF current.right = None THEN None ELSE get_minimal(current)

get_successor(current) ==
    IF current.right = None THEN None ELSE get_minimal(current.right)

\* mutant: subtree_size is incremented before the recursive call, so a
\* raise below leaves the increment behind
RECURSIVE insert_aux_count_first(_, _, _)
insert_aux_count_first(current, key, item) ==
    IF current = None
    THEN [node |-> TreeNode(key, item), raised |-> FALSE, dlen |-> 1]
    ELSE IF key < current.key
    THEN LET r == insert_aux_count_first(current.left, key, item) IN
         [node |-> [current EXCEPT !.left = r.node, !.subtree_size = @ + 1],
          raised |-> r.raised, dlen |-> r.dlen]
    ELSE IF key > current.key
    THEN LET r == insert_aux_count_first(current.right, key, item) IN
         [node |-> [current EXCEPT !.right = r.node, !.subtree_size = @ + 1],
          raised |-> r.raised, dlen |-> r.dlen]
    ELSE [node |-> current, raised |-> TRUE, dlen |-> 0]

\* The result of an *_aux call: node is the object the call returns (or, when
\* it raised, the object it was called on, as mutated so far); dlen is what
\* the call added to self.length.
\* mutant: the length is not counted up when the node is created
RECURSIVE insert_aux_length_kept(_, _, _)
insert_aux_length_kept(current, key, item) ==
    IF current = None
    THEN [node |-> TreeNode(key, item), raised |-> FALSE, dlen |-> 0]
    ELSE IF key < current.key
    THEN LET r == insert_aux_length_kept(current.left, key, item) IN
         IF r.raised
         THEN [node |-> [current EXCEPT !.left = r.node],
               raised |-> TRUE, dlen |-> r.dlen]
         ELSE [node |-> [current EXCEPT !.left = r.node,
                                        !.subtree_size = @ + 1],
               raised |-> FALSE, dlen |-> r.dlen]
    ELSE IF key > current.key
    THEN LET r == insert_aux_length_kept(current.right, key, item) IN
         IF r.raised
         THEN [node |-> [current EXCEPT !.right = r.node],
               raised |-> TRUE, dlen |-> r.dlen]
         ELSE [node |-> [current EXCEPT !.right = r.node,
                                        !.subtree_size = @ + 1],
               raised |-> FALSE, dlen |-> r.dlen]
    ELSE [node |-> current, raised |-> TRUE, dlen |-> 0]

RECURSIVE insert_aux(_, _, _)
insert_aux(current, key, item) ==
    IF current = None
    THEN [node |-> TreeNode(key, item), raised |-> FALSE, dlen |-> 1]
    ELSE IF key < current.key
    THEN LET r == insert_aux(current.left, key, item) IN
         IF r.raised
         THEN [node |-> [current EXCEPT !.left = r.node],
               raised |-> TRUE, dlen |-> r.dlen]
         ELSE [node |-> [current EXCEPT !.left = r.node,
                                        !.subtree_size = @ + 1],
               raised |-> FALSE, dlen |-> r.dlen]
    ELSE IF key > current.key
    THEN LET r == insert_aux(current.right, key, item) IN
         IF r.raised
         THEN [node |-> [current EXCEPT !.right = r.node],
               raised |-> TRUE, dlen |-> r.dlen]
         ELSE [node |-> [current EXCEPT !.right = r.node,
                                        !.subtree_size = @ + 1],
               raised |-> FALSE, dlen |-> r.dlen]
    ELSE [node |-> current, raised |-> TRUE, dlen |-> 0]

\* mutant: the two-children case forgets current.subtree_size -= 1
RECURSIVE delete_aux_no_decrement(_, _)
delete_aux_no_decrement(current, key) ==
    IF current = None
    THEN [node |-> None, raised |-> TRUE, dlen |-> 0]
    ELSE IF key < current.key
    THEN LET r == delete_aux_no_decrement(current.left, key) IN
         IF r.raised
         THEN [node |-> [current EXCEPT !.left = r.node],
               raised |-> TRUE, dlen |-> r.dlen]
         ELSE [node |-> [current EXCEPT !.left = r.node,
                                        !.subtree_size = @ - 1],
               raised |-> FALSE, dlen |-> r.dlen]
    ELSE IF key > current.key
    THEN LET r == delete_aux_no_decrement(current.right, key) IN
         IF r.raised
         THEN [node |-> [current EXCEPT !.right = r.node],
               raised |-> TRUE, dlen |-> r.dlen]
         ELSE [node |-> [current EXCEPT !.right = r.node,
                                        !.subtree_size = @ - 1],
               raised |-> FALSE, dlen |-> r.dlen]
    ELSE IF is_leaf(current)
    THEN [node |-> None, raised |-> FALSE, dlen |-> -1]
    ELSE IF current.left = None
    THEN [node |-> current.right, raised |-> FALSE, dlen |-> -1]
    ELSE IF current.right = None
    THEN [node |-> current.left, raised |-> FALSE, dlen |-> -1]
    ELSE LET successor == get_successor(current)
             moved == [current EXCEPT !.key = successor.key,
                                      !.item = successor.item]
             r == delete_aux_no_decrement(current.right, successor.key)
         IN  [node |-> [moved EXCEPT !.right = r.node],
              raised |-> r.raised, dlen |-> r.dlen]

\* mutant: subtree_size is decremented before the recursive call, so a
\* raise below leaves the decrement behind
RECURSIVE delete_aux_count_first(_, _)
delete_aux_count_first(current, key) ==
    IF current = None
    THEN [node |-> None, raised |-> TRUE, dlen |-> 0]
    ELSE IF key < current.key
    THEN LET r == delete_aux_count_first(current.left, key) IN
         [node |-> [current EXCEPT !.left = r.node, !.subtree_size = @ - 1],
          raised |-> r.raised, dlen |-> r.dlen]
    ELSE IF key > current.key
    THEN LET r == delete_aux_count_first(current.right, key) IN
         [node |-> [current EXCEPT !.right = r.node, !.subtree_size = @ - 1],
          raised |-> r.raised, dlen |-> r.dlen]
    ELSE IF is_leaf(current)
    THEN [node |-> None, raised |-> FALSE, dlen |-> -1]
    ELSE IF current.left = None
    THEN [node |-> current.right, raised |-> FALSE, dlen |-> -1]
    ELSE IF current.right = None
    THEN [node |-> current.left, raised |-> FALSE, dlen |-> -1]
    ELSE LET successor == get_successor(current)
             moved == [current EXCEPT !.key = successor.key,
                                      !.item = successor.item,
                                      !.subtree_size = @ - 1]
             r == delete_aux_count_first(current.right, successor.key)
         IN  [node |-> [moved EXCEPT !.right = r.node],
              raised |-> r.raised, dlen |-> r.dlen]

\* mutant: the two-children case copies the successor's key but not its item
RECURSIVE delete_aux_item_kept(_, _)
delete_aux_item_kept(current, key) ==
    IF current = None
    THEN [node |-> None, raised |-> TRUE, dlen |-> 0]
    ELSE IF key < current.key
    THEN LET r == delete_aux_item_kept(current.left, key) IN
         IF r.raised
         THEN [node |-> [current EXCEPT !.left = r.node],
               raised |-> TRUE, dlen |-> r.dlen]
         ELSE [node |-> [current EXCEPT !.left = r.node,
                                        !.subtree_size = @ - 1],
               raised |-> FALSE, dlen |-> r.dlen]
    ELSE IF key > current.key
    THEN LET r == delete_aux_item_kept(current.right, key) IN
         IF r.raised
         THEN [node |-> [current EXCEPT !.right = r.node],
               raised |-> TRUE, dlen |-> r.dlen]
         ELSE [node |-> [current EXCEPT !.right = r.node,
                                        !.subtree_size = @ - 1],
               raised |-> FALSE, dlen |-> r.dlen]
    ELSE IF is_leaf(current)
    THEN [node |-> None, raised |-> FALSE, dlen |-> -1]
    ELSE IF current.left = None
    THEN [node |-> current.right, raised |-> FALSE, dlen |-> -1]
    ELSE IF current.right = None
    THEN [node |-> current.left, raised |-> FALSE, dlen |-> -1]
    ELSE LET successor == get_successor(current)
             moved == [current EXCEPT !.key = successor.key,
                                      !.subtree_size = @ - 1]
             r == delete_aux_item_kept(current.right, successor.key)
         IN  [node |-> [moved EXCEPT !.right = r.node],
              raised |-> r.raised, dlen |-> r.dlen]

\* mutant: a delete in the right subtree leaves subtree_size as it was
RECURSIVE delete_aux_right_size_kept(_, _)
delete_aux_right_size_kept(current, key) ==
    IF current = None
    THEN [node |-> None, raised |-> TRUE, dlen |-> 0]
    ELSE IF key < current.key
    THEN LET r == delete_aux_right_size_kept(current.left, key) IN
         IF r.raised
         THEN [node |-> [current EXCEPT !.left = r.node],
               raised |-> TRUE, dlen |-> r.dlen]
         ELSE [node |-> [current EXCEPT !.left = r.node,
                                        !.subtree_size = @ - 1],
               raised |-> FALSE, dlen |-> r.dlen]
    ELSE IF key > current.key
    THEN LET r == delete_aux_right_size_kept(current.right, key) IN
         IF r.raised
         THEN [node |-> [current EXCEPT !.right = r.node],
               raised |-> TRUE, dlen |-> r.dlen]
         ELSE [node |-> [current EXCEPT !.right = r.node],
               raised |-> FALSE, dlen |-> r.dlen]
    ELSE IF is_leaf(current)
    THEN [node |-> None, raised |-> FALSE, dlen |-> -1]
    ELSE IF current.left = None
    THEN [node |-> current.right, raised |-> FALSE, dlen |-> -1]
    ELSE IF current.right = None
    THEN [node |-> current.left, raised |-> FALSE, dlen |-> -1]
    ELSE LET successor == get_successor(current)
             moved == [current EXCEPT !.key = successor.key,
                                      !.item = successor.item,
                                      !.subtree_size = @ - 1]
             r == delete_aux_right_size_kept(current.right, successor.key)
         IN  [node |-> [moved EXCEPT !.right = r.node],
              raised |-> r.raised, dlen |-> r.dlen]

RECURSIVE delete_aux(_, _)
delete_aux(current, key) ==
    IF current = None
    THEN [node |-> None, raised |-> TRUE, dlen |-> 0]
    ELSE IF key < current.key
    THEN LET r == delete_aux(current.left, key) IN
         IF r.raised
         THEN [node |-> [current EXCEPT !.left = r.node],
               raised |-> TRUE, dlen |-> r.dlen]
         ELSE [node |-> [current EXCEPT !.left = r.node,
                                        !.subtree_size = @ - 1],
               raised |-> FALSE, dlen |-> r.dlen]
    ELSE IF key > current.key
    THEN LET r == delete_aux(current.right, key) IN
         IF r.raised
         THEN [node |-> [current EXCEPT !.right = r.node],
               raised |-> TRUE, dlen |-> r.dlen]
         ELSE [node |-> [current EXCEPT !.right = r.node,
                                        !.subtree_size = @ - 1],
               raised |-> FALSE, dlen |-> r.dlen]
    ELSE IF is_leaf(current)
    THEN [node |-> None, raised |-> FALSE, dlen |-> -1]
    ELSE IF current.left = None
    THEN [node |-> current.right, raised |-> FALSE, dlen |-> -1]
    ELSE IF current.right = None
    THEN [node |-> current.left, raised |-> FALSE, dlen |-> -1]
    ELSE LET successor == get_successor(current)
             moved == [current EXCEPT !.key = successor.key,
                                      !.item = successor.item,
                                      !.subtree_size = @ - 1]
             r == delete_aux(current.right, successor.key)
         IN  [node |-> [moved EXCEPT !.right = r.node],
              raised |-> r.raised, dlen |-> r.dlen]

\* mutant: the descent goes right for smaller keys and left for greater ones
RECURSIVE get_tree_node_by_key_aux_swapped(_, _)
get_tree_node_by_key_aux_swapped(current, key) ==
    IF current = None THEN [node |-> None, raised |-> TRUE]
    ELSE IF key = current.key THEN [node |-> current, raised |-> FALSE]
    ELSE IF key < current.key THEN get_tree_node_by_key_aux_swapped(current.right, key)
    ELSE get_tree_node_by_key_aux_swapped(current.left, key)

RECURSIVE get_tree_node_by_key_aux(_, _)
get_tree_node_by_key_aux(current, key) ==
    IF current = None THEN [node |-> None, raised |-> TRUE]
    ELSE IF key = current.key THEN [node |-> current, raised |-> FALSE]
    ELSE IF key < current.key THEN get_tree_node_by_key_aux(current.left, key)
    ELSE get_tree_node_by_key_aux(current.right, key)

\* BinarySearchTree.__getitem__: the item of the node found, or the KeyError
getitem(tree_root, key) ==
    LET r == get_tree_node_by_key_aux(tree_root, key) IN
    IF r.raised THEN [raised |-> TRUE, ret |-> None]
    ELSE [raised |-> FALSE, ret |-> r.node.item]

\* BinarySearchTree.__contains__: self[key] with the KeyError caught
contains(tree_root, key) ==
    [raised |-> FALSE, ret |-> ~getitem(tree_root, key).raised]

\* mutant: the right recursion re-bases k by left_size only
RECURSIVE kth_smallest_off_by_one(_, _)
kth_smallest_off_by_one(k, current) ==
    IF current = None \/ current.subtree_size < k THEN None
    ELSE IF current.subtree_size = k /\ k = 1 THEN current
    ELSE LET left_size == IF current.left # None
                          THEN current.left.subtree_size ELSE 0
         IN  IF left_size + 1 = k THEN current
             ELSE IF left_size >= k THEN kth_smallest_off_by_one(k, current.left)
             ELSE kth_smallest_off_by_one(k - left_size, current.right)

\* mutant: k is taken as a 0-indexed rank
RECURSIVE kth_smallest_zero_indexed(_, _)
kth_smallest_zero_indexed(k, current) ==
    IF current = None \/ current.subtree_size < k THEN None
    ELSE IF current.subtree_size = k /\ k = 1 THEN current
    ELSE LET left_size == IF current.left # None
                          THEN current.left.subtree_size ELSE 0
         IN  IF left_size = k THEN current
             ELSE IF left_size > k THEN kth_smallest_zero_indexed(k, current.left)
             ELSE kth_smallest_zero_indexed(k - left_size - 1, current.right)

RECURSIVE kth_smallest(_, _)
kth_smallest(k, current) ==
    IF current = None \/ current.subtree_size < k THEN None
    ELSE IF current.subtree_size = k /\ k = 1 THEN current
    ELSE LET left_size == IF current.left # None
                          THEN current.left.subtree_size ELSE 0
         IN  IF left_size + 1 = k THEN current
             ELSE IF left_size >= k THEN kth_smallest(k, current.left)
             ELSE kth_smallest(k - left_size - 1, current.right)

(***************************************************************************)
(* ratio.Percentiles: self.points is the BinarySearchTree <<root, length>> *)
(***************************************************************************)
\* ceil(x / 100 * total_points) for x given in tenths of a percent.  For the
\* percentages of Percents x / 100 is a dyadic fraction, so the float
\* product is exact and the float ceil is the integer one.
\* mutant: the percentage of the total is rounded down
ceil_percent_floor(x, total_points) == (x * total_points) \div 1000

ceil_percent(x, total_points) == (x * total_points + 999) \div 1000

\* mutant: the right recursion does not re-base rear_index past the node
RECURSIVE _ratio_aux_rear_kept(_, _, _, _)
_ratio_aux_rear_kept(current, front_index, rear_index, range_items) ==
    IF current = None THEN range_items
    ELSE LET left_size == IF current.left # None
                          THEN current.left.subtree_size ELSE 0
             here == IF front_index <= left_size + 1 /\ left_size + 1 <= rear_index
                     THEN Append(range_items, current.key)
                     ELSE range_items
             after_left == _ratio_aux_rear_kept(current.left, front_index,
                                                rear_index, here)
         IN  _ratio_aux_rear_kept(current.right, front_index - left_size - 1,
                                  rear_index - left_size, after_left)

RECURSIVE _ratio_aux(_, _, _, _)
_ratio_aux(current, front_index, rear_index, range_items) ==
    IF current = None THEN range_items
    ELSE LET left_size == IF current.left # None
                          THEN current.left.subtree_size ELSE 0
             here == IF front_index <= left_size + 1 /\ left_size + 1 <= rear_index
                     THEN Append(range_items, current.key)
                     ELSE range_items
             after_left == _ratio_aux(current.left, front_index, rear_index, here)
         IN  _ratio_aux(current.right, front_index - left_size - 1,
                        rear_index - left_size - 1, after_left)

\* mutant: the band starts at the rank of the cut instead of the one after it
ratio_front_included(points_root, points_length, x, y) ==
    LET total_points == points_length
        front_index == ceil_percent(x, total_points)
        rear_index == total_points - ceil_percent(y, total_points)
    IN  _ratio_aux(points_root, front_index, rear_index, <<>>)

ratio(points_root, points_length, x, y) ==
    LET total_points == points_length
        front_index == ceil_percent(x, total_points)
        rear_index == total_points - ceil_percent(y, total_points)
    IN  _ratio_aux(points_root, front_index + 1, rear_index, <<>>)

(***************************************************************************)
(* threedeebeetree.BeeNode and threedeebeetree.ThreeDeeBeeTree              *)
(***************************************************************************)
\* children is ArrayR(8): slots 0..7, all empty at construction
BeeNode(key, item) ==
    [key |-> key, item |-> item, subtree_size |-> 1,
     children |-> [i \in 0..7 |-> None]]

\* mutant: x is compared with > instead of >=
get_child_index_strict_x(self, point) ==
    LET x == point[1]
        y == point[2]
        z == point[3]
        self_x == self.key[1]
        self_y == self.key[2]
        self_z == self.key[3]
    IN  (IF x > self_x THEN 1 ELSE 0)
        + (IF y >= self_y THEN 2 ELSE 0)
        + (IF z >= self_z THEN 4 ELSE 0)

\* mutant: y counts 4 and z counts 2
get_child_index_yz_swapped(self, point) ==
    LET x == point[1]
        y == point[2]
        z == point[3]
        self_x == self.key[1]
        self_y == self.key[2]
        self_z == self.key[3]
    IN  (IF x >= self_x THEN 1 ELSE 0)
        + (IF y >= self_y THEN 4 ELSE 0)
        + (IF z >= self_z THEN 2 ELSE 0)

get_child_index(self, point) ==
    LET x == point[1]
        y == point[2]
        z == point[3]
        self_x == self.key[1]
        self_y == self.key[2]
        self_z == self.key[3]
    IN  (IF x >= self_x THEN 1 ELSE 0)
        + (IF y >= self_y THEN 2 ELSE 0)
        + (IF z >= self_z THEN 4 ELSE 0)

get_child_for_key(self, point) ==
    LET index == get_child_index(self, point) IN self.children[index]

\* mutant: a key at or above current.key on every axis is taken for current.key
RECURSIVE tdbt_get_tree_node_by_key_aux_ppp(_, _)
tdbt_get_tree_node_by_key_aux_ppp(current, key) ==
    IF current = None THEN [node |-> None, raised |-> TRUE]
    ELSE IF get_child_index(current, key) = 7 THEN [node |-> current, raised |-> FALSE]
    ELSE LET index == get_child_index(current, key) IN
         tdbt_get_tree_node_by_key_aux_ppp(current.children[index], key)

\* ThreeDeeBeeTree.get_tree_node_by_key_aux
RECURSIVE tdbt_get_tree_node_by_key_aux(_, _)
tdbt_get_tree_node_by_key_aux(current, key) ==
    IF current = None THEN [node |-> None, raised |-> TRUE]
    ELSE IF key = current.key THEN [node |-> current, raised |-> FALSE]
    ELSE LET index == get_child_index(current, key) IN
         tdbt_get_tree_node_by_key_aux(current.children[index], key)

\* ThreeDeeBeeTree.__getitem__
tdbt_getitem(tree_root, key) ==
    LET r == tdbt_get_tree_node_by_key_aux(tree_root, key) IN
    IF r.raised THEN [raised |-> TRUE, ret |-> None]
    ELSE [raised |-> FALSE, ret |-> r.node.item]

\* ThreeDeeBeeTree.__contains__: the KeyError of get_tree_node_by_key is caught
tdbt_contains(tree_root, key) ==
    [raised |-> FALSE, ret |-> ~tdbt_get_tree_node_by_key_aux(tree_root, key).raised]

\* ThreeDeeBeeTree.insert_aux: it has no raise; every call that reaches an
\* empty slot adds one to self.length
\* mutant: the index is that of current.key relative to the new key
RECURSIVE tdbt_insert_aux_swapped(_, _, _)
tdbt_insert_aux_swapped(current, key, item) ==
    IF current = None
    THEN BeeNode(key, item)
    ELSE LET index == get_child_index(BeeNode(key, item), current.key) IN
         [current EXCEPT !.children[index] = tdbt_insert_aux_swapped(@, key, item),
                         !.subtree_size = @ + 1]

\* mutant: subtree_size is left as it was on the way back
RECURSIVE tdbt_insert_aux_size_kept(_, _, _)
tdbt_insert_aux_size_kept(current, key, item) ==
    IF current = None
    THEN BeeNode(key, item)
    ELSE LET index == get_child_index(current, key) IN
         [current EXCEPT !.children[index] = tdbt_insert_aux_size_kept(@, key, item)]

RECURSIVE tdbt_insert_aux(_, _, _)
tdbt_insert_aux(current, key, item) ==
    IF current = None
    THEN BeeNode(key, item)
    ELSE LET index == get_child_index(current, key) IN
         [current EXCEPT !.children[index] = tdbt_insert_aux(@, key, item),
                         !.subtree_size = @ + 1]

(***************************************************************************)
(* balancing.make_ordering                                                 *)
(***************************************************************************)
\* Percentiles.__init__: an empty BinarySearchTree
Percentiles == [root |-> None, length |-> 0, raised |-> FALSE]

\* Percentiles.add_point: self.points[item] = None; a ValueError of the tree
\* is not caught
add_point(self, item) ==
    LET r == insert_aux(self.root, item, "None") IN
    [root |-> r.node, length |-> self.length + r.dlen, raised |-> r.raised]

\* the loop of lines 38-41 from the i-th point on; it stops at the first raise
RECURSIVE add_all_points(_, _, _, _, _)
add_all_points(coordinate_list_, i, x_percentiles, y_percentiles, z_percentiles) ==
    IF i > Len(coordinate_list_)
    THEN [raised |-> FALSE, x |-> x_percentiles, y |-> y_percentiles,
          z |-> z_percentiles]
    ELSE LET point == coordinate_list_[i]
             px == add_point(x_percentiles, point[1])
             py == add_point(y_percentiles, point[2])
             pz == add_point(z_percentiles, point[3])
         IN  IF px.raised \/ py.raised \/ pz.raised
             THEN [raised |-> TRUE, x |-> px, y |-> py, z |-> pz]
             ELSE add_all_points(coordinate_list_, i + 1, px, py, pz)

IsIn(value, list) == \E i \in 1..Len(list) : list[i] = value

\* lists shorter than this are returned as they are
BaseCaseSize == 18

\* extend ordered_points by the orderings of octant[i..7]; a raise in one of
\* the recursive calls ends the loop
RECURSIVE _make_ordering_aux(_)
RECURSIVE extend_from(_, _, _)
RECURSIVE extend_from_descending(_, _, _)
\* mutant: the octants are taken from 7 down to 0
extend_from_descending(octant, i, ordered_points) ==
    IF i > 7 THEN [raised |-> FALSE, ret |-> ordered_points]
    ELSE LET children == _make_ordering_aux(octant[7 - i]) IN
         IF children.raised THEN [raised |-> TRUE, ret |-> <<>>]
         ELSE extend_from_descending(octant, i + 1, ordered_points \o children.ret)

extend_from(octant, i, ordered_points) ==
    IF i > 7 THEN [raised |-> FALSE, ret |-> ordered_points]
    ELSE LET children == _make_ordering_aux(octant[i]) IN
         IF children.raised THEN [raised |-> TRUE, ret |-> <<>>]
         ELSE extend_from(octant, i + 1, ordered_points \o children.ret)

\* mutant: only lists of fewer than 17 points are returned as they are
_make_ordering_aux_base_17(coordinate_list_) ==
    IF Len(coordinate_list_) < BaseCaseSize - 1
    THEN [raised |-> FALSE, ret |-> coordinate_list_]
    ELSE
    LET p == add_all_points(coordinate_list_, 1, Percentiles, Percentiles, Percentiles) IN
    IF p.raised THEN [raised |-> TRUE, ret |-> <<>>]
    ELSE
    LET a == 125
        valid_x_root == ratio(p.x.root, p.x.length, a, a)
        valid_y_root == ratio(p.y.root, p.y.length, a, a)
        valid_z_root == ratio(p.z.root, p.z.length, a, a)
        found == {i \in 1..Len(coordinate_list_) :
                     /\ IsIn(coordinate_list_[i][1], valid_x_root)
                     /\ IsIn(coordinate_list_[i][2], valid_y_root)
                     /\ IsIn(coordinate_list_[i][3], valid_z_root)}
    IN
    IF found = {} THEN [raised |-> FALSE, ret |-> coordinate_list_]
    ELSE
    LET root_element == coordinate_list_[CHOOSE i \in found : \A j \in found : i <= j]
        remaining == SelectSeq(coordinate_list_, LAMBDA point : point # root_element)
        root_node == BeeNode(root_element, "None")
        octant == [index \in 0..7 |->
                      SelectSeq(remaining,
                                LAMBDA point : get_child_index(root_node, point) = index)]
    IN  extend_from(octant, 0, <<root_element>>)

_make_ordering_aux(coordinate_list_) ==
    IF Len(coordinate_list_) < BaseCaseSize
    THEN [raised |-> FALSE, ret |-> coordinate_list_]
    ELSE
    LET p == add_all_points(coordinate_list_, 1, Percentiles, Percentiles, Percentiles) IN
    IF p.raised THEN [raised |-> TRUE, ret |-> <<>>]
    ELSE
    LET a == 125
        valid_x_root == ratio(p.x.root, p.x.length, a, a)
        valid_y_root == ratio(p.y.root, p.y.length, a, a)
        valid_z_root == ratio(p.z.root, p.z.length, a, a)
        found == {i \in 1..Len(coordinate_list_) :
                     /\ IsIn(coordinate_list_[i][1], valid_x_root)
                     /\ IsIn(coordinate_list_[i][2], valid_y_root)
                     /\ IsIn(coordinate_list_[i][3], valid_z_root)}
    IN
    IF found = {} THEN [raised |-> FALSE, ret |-> coordinate_list_]
    ELSE
    LET root_element == coordinate_list_[CHOOSE i \in found : \A j \in found : i <= j]
        remaining == SelectSeq(coordinate_list_, LAMBDA point : point # root_element)
        root_node == BeeNode(root_element, "None")
        octant == [index \in 0..7 |->
                      SelectSeq(remaining,
                                LAMBDA point : get_child_index(root_node, point) = index)]
    IN  extend_from(octant, 0, <<root_element>>)

make_ordering(my_coordinate_list) == _make_ordering_aux(my_coordinate_list)

(***************************************************************************)
(* The BinarySearchTree under a sequence of operations.  last records the  *)
(* operation just performed: its arguments, the tree it was applied to,    *)
(* whether it raised and what it returned.                                 *)
(***************************************************************************)
NoOp == [op |-> "init"]

BstInit ==
    /\ root = None
    /\ length = 0
    /\ last = NoOp
    /\ stored = {}

\* BinarySearchTree.__setitem__ (Percentiles.add_point when item is None)
SetItem(key, item) ==
    LET r == insert_aux(root, key, item) IN
    /\ root' = r.node
    /\ length' = length + r.dlen
    /\ last' = [op |-> "insert", key |-> key, item |-> item,
                root |-> root, length |-> length, raised |-> r.raised]
    /\ stored' = IF r.raised THEN stored ELSE stored \cup {<<key, item>>}
    /\ UNCHANGED <<tdbtVars, orderingVars, replayVars>>

\* BinarySearchTree.__delitem__ (Percentiles.remove_point); undoes holds the
\* tree as it was before the call before this one, when that call inserted key
DelItem(key) ==
    LET r == delete_aux(root, key) IN
    /\ root' = r.node
    /\ length' = length + r.dlen
    /\ last' = [op |-> "delete", key |-> key,
                root |-> root, length |-> length, raised |-> r.raised,
                undoes |-> IF last.op = "insert" /\ ~last.raised /\ last.key = key
                           THEN [root |-> last.root, length |-> last.length]
                           ELSE None]
    /\ stored' = IF r.raised THEN stored ELSE {pair \in stored : pair[1] # key}
    /\ UNCHANGED <<tdbtVars, orderingVars, replayVars>>

\* BinarySearchTree.__getitem__
GetItem(key) ==
    LET r == getitem(root, key) IN
    /\ last' = [op |-> "lookup", key |-> key, raised |-> r.raised, ret |-> r.ret]
    /\ UNCHANGED <<root, length, stored>>
    /\ UNCHANGED <<tdbtVars, orderingVars, replayVars>>

\* BinarySearchTree.__contains__
Contains(key) ==
    LET r == contains(root, key) IN
    /\ last' = [op |-> "contains", key |-> key, raised |-> r.raised, ret |-> r.ret]
    /\ UNCHANGED <<root, length, stored>>
    /\ UNCHANGED <<tdbtVars, orderingVars, replayVars>>

KthSmallest(k) ==
    /\ last' = [op |-> "kth", k |-> k, ret |-> kth_smallest(k, root)]
    /\ UNCHANGED <<root, length, stored>>
    /\ UNCHANGED <<tdbtVars, orderingVars, replayVars>>

Ratio(x, y) ==
    /\ last' = [op |-> "ratio", x |-> x, y |-> y,
                ret |-> ratio(root, length, x, y)]
    /\ UNCHANGED <<root, length, stored>>
    /\ UNCHANGED <<tdbtVars, orderingVars, replayVars>>

BstNext ==
    \/ \E key \in Keys, item \in Items : SetItem(key, item)
    \/ \E key \in Keys : DelItem(key)
    \/ \E key \in Keys : GetItem(key)
    \/ \E key \in Keys : Contains(key)
    \/ \E k \in (-1)..(MaxKey + 1) : KthSmallest(k)
    \/ \E x \in Percents, y \in Percents : Ratio(x, y)

(***************************************************************************)
(* The ThreeDeeBeeTree under a sequence of inserts.  The payload of the    *)
(* n-th insert is n, so that every insert carries a payload of its own.    *)
(***************************************************************************)
TdbtInit ==
    /\ troot = None
    /\ tlength = 0
    /\ tlast = NoOp
    /\ tinserted = <<>>
    /\ tcall = None

\* ThreeDeeBeeTree.__setitem__
TdbtSetItem(key) ==
    LET item == tlength + 1 IN
    /\ tlength < MaxInserts
    /\ troot' = tdbt_insert_aux(troot, key, item)
    /\ tlength' = tlength + 1
    /\ tlast' = [op |-> "insert", key |-> key, item |-> item,
                 root |-> troot, length |-> tlength, raised |-> FALSE]
    /\ tinserted' = Append(tinserted, key)
    /\ UNCHANGED tcall
    /\ UNCHANGED <<bstVars, orderingVars, replayVars>>

\* ThreeDeeBeeTree.__getitem__, called for every point of Points in turn;
\* ret[key] is the outcome of the call for key
TdbtGetItem ==
    /\ tlast' = [op |-> "lookup",
                 ret |-> [key \in Points |-> tdbt_getitem(troot, key)]]
    /\ UNCHANGED <<troot, tlength, tinserted, tcall>>
    /\ UNCHANGED <<bstVars, orderingVars, replayVars>>

\* ThreeDeeBeeTree.__contains__, called for every point of Points in turn
TdbtContains ==
    /\ tlast' = [op |-> "contains",
                 ret |-> [key \in Points |-> tdbt_contains(troot, key)]]
    /\ UNCHANGED <<troot, tlength, tinserted, tcall>>
    /\ UNCHANGED <<bstVars, orderingVars, replayVars>>

\* tdbt.root.get_child_index(point) and tdbt.root.get_child_for_key(point), the
\* latter as in the example of threedeebeetree.py, for every point of Points
TdbtGetChildForKey ==
    /\ troot # None
    /\ tlast' = [op |-> "get_child_for_key",
                 index |-> [point \in Points |-> get_child_index(troot, point)],
                 ret |-> [point \in Points |-> get_child_for_key(troot, point)]]
    /\ UNCHANGED <<troot, tlength, tinserted, tcall>>
    /\ UNCHANGED <<bstVars, orderingVars, replayVars>>

\* the example at the end of threedeebeetree.py: its four inserts, one per
\* step, then the subtree_size it prints
IsStrictPrefix(s, t) == Len(s) < Len(t) /\ s = SubSeq(t, 1, Len(s))

TdbtExampleInsert ==
    /\ IsStrictPrefix(tinserted, ExamplePoints)
    /\ LET key == ExamplePoints[Len(tinserted) + 1]
           item == tlength + 1
       IN  /\ troot' = tdbt_insert_aux(troot, key, item)
           /\ tlength' = tlength + 1
           /\ tlast' = [op |-> "insert", key |-> key, item |-> item,
                        root |-> troot, length |-> tlength, raised |-> FALSE]
           /\ tinserted' = Append(tinserted, key)
           /\ UNCHANGED tcall
    /\ UNCHANGED <<bstVars, orderingVars, replayVars>>

TdbtExamplePrint ==
    /\ tinserted = ExamplePoints
    /\ tlast' = [op |-> "example",
                 ret |-> get_child_for_key(troot, ExamplePoints[3]).subtree_size]
    /\ UNCHANGED <<troot, tlength, tinserted, tcall>>
    /\ UNCHANGED <<bstVars, orderingVars, replayVars>>

TdbtNext ==
    \/ \E key \in Points : TdbtSetItem(key)
    \/ TdbtExampleInsert
    \/ TdbtExamplePrint
    \/ TdbtGetItem
    \/ TdbtContains
    \/ TdbtGetChildForKey

(***************************************************************************)
(* ThreeDeeBeeTree.__setitem__ call by call: tcall is None between calls   *)
(* of __setitem__; during one, tcall.stack holds, for every call of        *)
(* insert_aux that has not returned, the child indices that lead from the  *)
(* root to its argument current, the innermost call last.  The nodes are   *)
(* changed in place, so the tree is seen at every step.                    *)
(***************************************************************************)
\* the node, or None, that path leads to from t
RECURSIVE NodeAt(_, _)
NodeAt(t, path) ==
    IF path = <<>> THEN t ELSE NodeAt(t.children[Head(path)], Tail(path))

\* t with the node that path leads to replaced by node
RECURSIVE WithNodeAt(_, _, _)
WithNodeAt(t, path, node) ==
    IF path = <<>> THEN node
    ELSE [t EXCEPT !.children[Head(path)] = WithNodeAt(@, Tail(path), node)]

\* mutant: the recursive call is given current again
insert_aux_callee_current(path, index) == path

\* the argument current.children[index] of the recursive call of line 209
insert_aux_callee(path, index) == Append(path, index)

TopCall == tcall.stack[Len(tcall.stack)]

\* __setitem__ calls insert_aux(self.root, key, item)
TdbtCallSetItem(key) ==
    /\ tcall = None
    /\ tlength < MaxInserts
    /\ tcall' = [key |-> key, item |-> tlength + 1, root |-> troot,
                 length |-> tlength, stack |-> << <<>> >>, pc |-> "enter",
                 ret |-> None]
    /\ UNCHANGED <<troot, tlength, tlast, tinserted>>
    /\ UNCHANGED <<bstVars, orderingVars, replayVars>>

\* the innermost call of insert_aux runs from its start to its return
\* statement or to its recursive call
InsertAuxEnter ==
    /\ tcall # None
    /\ tcall.pc = "enter"
    /\ LET current == NodeAt(troot, TopCall) IN
       IF current = None
       THEN /\ tlength' = tlength + 1
            /\ tcall' = [tcall EXCEPT !.pc = "return",
                                      !.ret = BeeNode(tcall.key, tcall.item)]
       ELSE LET index == get_child_index(current, tcall.key) IN
            /\ tcall' = [tcall EXCEPT
                             !.stack = Append(@, insert_aux_callee(TopCall, index))]
            /\ UNCHANGED tlength
    /\ UNCHANGED <<troot, tlast, tinserted>>
    /\ UNCHANGED <<bstVars, orderingVars, replayVars>>

\* the innermost call returns tcall.ret: to __setitem__, which stores it in
\* self.root, or to the calling insert_aux, which stores it in
\* current.children[index], adds 1 to current.subtree_size and returns current
InsertAuxReturn ==
    /\ tcall # None
    /\ tcall.pc = "return"
    /\ IF Len(tcall.stack) = 1
       THEN /\ troot' = tcall.ret
            /\ tcall' = None
            /\ tlast' = [op |-> "insert", key |-> tcall.key, item |-> tcall.item,
                         root |-> tcall.root, length |-> tcall.length,
                         raised |-> FALSE]
            /\ tinserted' = Append(tinserted, tcall.key)
       ELSE LET path == tcall.stack[Len(tcall.stack) - 1]
                current == NodeAt(troot, path)
                index == get_child_index(current, tcall.key)
                returned == [current EXCEPT !.children[index] = tcall.ret,
                                            !.subtree_size = @ + 1]
            IN  /\ troot' = WithNodeAt(troot, path, returned)
                /\ tcall' = [tcall EXCEPT
                                 !.stack = SubSeq(@, 1, Len(@) - 1),
                                 !.ret = returned]
                /\ UNCHANGED <<tlast, tinserted>>
    /\ UNCHANGED tlength
    /\ UNCHANGED <<bstVars, orderingVars, replayVars>>

TdbtStepNext ==
    \/ \E key \in Points : TdbtCallSetItem(key)
    \/ InsertAuxEnter
    \/ InsertAuxReturn

(***************************************************************************)
(* make_ordering applied to one list of points.  The i-th point of the     *)
(* list has the coordinates (ax*i) % 23, (ay*i) % 23, (az*i) % 23, which   *)
(* differ from point to point on every axis; with shared = k in 1..3 the   *)
(* last point takes the k-th coordinate of the first one, so that two      *)
(* distinct points share a coordinate value on axis k.                     *)
(***************************************************************************)
Coordinate(mult, i) == (mult * i) % 23

InputList(n, ax, ay, az, shared) ==
    [i \in 1..n |->
        LET own == <<Coordinate(ax, i), Coordinate(ay, i), Coordinate(az, i)>>
            first == <<Coordinate(ax, 1), Coordinate(ay, 1), Coordinate(az, 1)>>
        IN  IF i = n /\ n >= 2 /\ shared \in 1..3
            THEN [own EXCEPT ![shared] = first[shared]]
            ELSE own]

\* i moved k places round 1..n
Rotate(i, k, n) == ((i - 1 + k) % n) + 1

\* n points with x = 1..n in input order and y, z that order rotated by ky, kz
\* times a quarter of n; with shared in 1..3 the last point takes that
\* coordinate of the point before it
SpreadPoint(i, n, ky, kz) ==
    LET quarter == 2 * ((n + 7) \div 8)
    IN  <<i, Rotate(i, ky * quarter, n), Rotate(i, kz * quarter, n)>>

SpreadList(n, ky, kz, shared) ==
    [i \in 1..n |->
        LET own == SpreadPoint(i, n, ky, kz) IN
        IF i = n /\ n >= 2 /\ shared \in 1..3
        THEN [own EXCEPT ![shared] = SpreadPoint(n - 1, n, ky, kz)[shared]]
        ELSE own]

\* a list whose first point is chosen as root and whose octant 7 holds b
\* points: the point (e+1, e+1, e+1), then for each axis e points below it on
\* that axis only, then SpreadList(b, ky, kz, 0) moved above all of them
DeepList(b, ky, kz) ==
    LET e == (b + 5) \div 5
        low == [j \in 1..(3 * e) |->
                   LET g == (j - 1) \div e
                       k == ((j - 1) % e) + 1
                   IN  [axis \in 1..3 |->
                           IF g = axis - 1 THEN k
                           ELSE e + 1 + (IF g > axis - 1 THEN g - 1 ELSE g) * e + k]]
        block == [i \in 1..b |->
                     LET point == SpreadPoint(i, b, ky, kz) IN
                     [axis \in 1..3 |-> 3 * e + 1 + point[axis]]]
    IN  <<<<e + 1, e + 1, e + 1>>>> \o low \o block

Reverse(list) == [i \in 1..Len(list) |-> list[Len(list) + 1 - i]]

OrderingInit ==
    /\ \/ \E n \in 0..MaxPoints, ax \in 1..MaxMult, ay \in 1..MaxMult,
             az \in 1..MaxMult, shared \in 0..3 :
             coordinate_list = InputList(n, ax, ay, az, shared)
       \/ \E n \in 0..MaxPoints, ky \in 0..2, kz \in 0..2, shared \in 0..3 :
             coordinate_list = SpreadList(n, ky, kz, shared)
       \/ \E b \in BaseCaseSize..MaxPoints, ky \in 0..2, kz \in 0..2 :
             \/ coordinate_list = DeepList(b, ky, kz)
             \/ coordinate_list = Reverse(DeepList(b, ky, kz))
    /\ ordering = NoOp

MakeOrdering ==
    /\ ordering = NoOp
    /\ LET r == make_ordering(coordinate_list) IN
       ordering' = [op |-> "make_ordering", raised |-> r.raised, ret |-> r.ret]
    /\ UNCHANGED <<coordinate_list, stack>>
    /\ UNCHANGED <<bstVars, tdbtVars, replayVars>>

\* the next point of the returned ordering is inserted into the
\* ThreeDeeBeeTree, which is empty when the first one goes in
InsertOutput ==
    /\ ordering.op = "make_ordering"
    /\ ~ordering.raised
    /\ tlength < Len(ordering.ret)
    /\ LET key == ordering.ret[tlength + 1]
           item == tlength + 1
       IN  /\ troot' = tdbt_insert_aux(troot, key, item)
           /\ tlength' = tlength + 1
           /\ tlast' = [op |-> "insert", key |-> key, item |-> item,
                        root |-> troot, length |-> tlength, raised |-> FALSE]
           /\ tinserted' = Append(tinserted, key)
           /\ UNCHANGED tcall
    /\ UNCHANGED <<bstVars, orderingVars, replayVars>>

OrderingNext ==
    \/ MakeOrdering
    \/ InsertOutput

(***************************************************************************)
(* make_ordering call by call: stack holds one frame for every call of     *)
(* _make_ordering_aux that has not returned, the innermost last.           *)
(***************************************************************************)
\* lines 34-85 of _make_ordering_aux: the three Percentiles, the scan for the
\* root and the partition of the other points
choose_root(coordinate_list_) ==
    LET p == add_all_points(coordinate_list_, 1, Percentiles, Percentiles, Percentiles) IN
    IF p.raised
    THEN [raised |-> TRUE, found |-> FALSE, root_element |-> None, octant |-> <<>>]
    ELSE
    LET a == 125
        valid_x_root == ratio(p.x.root, p.x.length, a, a)
        valid_y_root == ratio(p.y.root, p.y.length, a, a)
        valid_z_root == ratio(p.z.root, p.z.length, a, a)
        found == {i \in 1..Len(coordinate_list_) :
                     /\ IsIn(coordinate_list_[i][1], valid_x_root)
                     /\ IsIn(coordinate_list_[i][2], valid_y_root)
                     /\ IsIn(coordinate_list_[i][3], valid_z_root)}
    IN
    IF found = {}
    THEN [raised |-> FALSE, found |-> FALSE, root_element |-> None, octant |-> <<>>]
    ELSE
    LET root_element == coordinate_list_[CHOOSE i \in found : \A j \in found : i <= j]
        remaining == SelectSeq(coordinate_list_, LAMBDA point : point # root_element)
        root_node == BeeNode(root_element, "None")
    IN  [raised |-> FALSE, found |-> TRUE, root_element |-> root_element,
         octant |-> [index \in 0..7 |->
                        SelectSeq(remaining,
                                  LAMBDA point : get_child_index(root_node, point) = index)]]

\* a call of _make_ordering_aux that has not run yet
Frame(coordinate_list_) ==
    [coordinate_list |-> coordinate_list_, pc |-> "enter", octant |-> <<>>,
     index |-> 0, ordered_points |-> <<>>]

\* mutant: the recursive call is given the list of the caller
callee_whole_list(frame) == frame.coordinate_list

\* the argument of the recursive call of line 98
callee(frame) == frame.octant[frame.index]

Top == stack[Len(stack)]

\* the innermost call returns value: to its caller, which extends
\* ordered_points by it and moves to the next octant, or to the caller of
\* make_ordering
ReturnFrom(value) ==
    IF Len(stack) = 1
    THEN /\ stack' = <<>>
         /\ ordering' = [op |-> "make_ordering", raised |-> FALSE, ret |-> value,
                         depth |-> ordering.depth]
    ELSE /\ stack' = Append(SubSeq(stack, 1, Len(stack) - 2),
                            [stack[Len(stack) - 1] EXCEPT
                                !.ordered_points = @ \o value,
                                !.index = @ + 1])
         /\ UNCHANGED ordering

\* make_ordering is called
CallMakeOrdering ==
    /\ ordering = NoOp
    /\ stack = <<>>
    /\ stack' = <<Frame(coordinate_list)>>
    /\ ordering' = [op |-> "calling", depth |-> 1]
    /\ UNCHANGED coordinate_list
    /\ UNCHANGED <<bstVars, tdbtVars, replayVars>>

\* the innermost call runs from its start to its first return, raise or
\* recursive call; a raise is caught nowhere and ends every call
AuxEnter ==
    /\ stack # <<>>
    /\ Top.pc = "enter"
    /\ IF Len(Top.coordinate_list) < BaseCaseSize
       THEN ReturnFrom(Top.coordinate_list)
       ELSE LET c == choose_root(Top.coordinate_list) IN
            IF c.raised
            THEN /\ stack' = <<>>
                 /\ ordering' = [op |-> "make_ordering", raised |-> TRUE,
                                 ret |-> <<>>, depth |-> ordering.depth]
            ELSE IF ~c.found
            THEN ReturnFrom(Top.coordinate_list)
            ELSE /\ stack' = [stack EXCEPT ![Len(stack)] =
                                  [@ EXCEPT !.pc = "loop",
                                            !.octant = c.octant,
                                            !.index = 0,
                                            !.ordered_points = <<c.root_element>>]]
                 /\ UNCHANGED ordering
    /\ UNCHANGED coordinate_list
    /\ UNCHANGED <<bstVars, tdbtVars, replayVars>>

\* the loop of lines 97-98: the call on the next octant, or the return of
\* ordered_points after the last one
AuxLoop ==
    /\ stack # <<>>
    /\ Top.pc = "loop"
    /\ IF Top.index > 7
       THEN ReturnFrom(Top.ordered_points)
       ELSE /\ stack' = Append(stack, Frame(callee(Top)))
            /\ ordering' = [ordering EXCEPT
                                !.depth = IF @ > Len(stack) THEN @ ELSE Len(stack) + 1]
    /\ UNCHANGED coordinate_list
    /\ UNCHANGED <<bstVars, tdbtVars, replayVars>>

OrderingStepNext ==
    \/ CallMakeOrdering
    \/ AuxEnter
    \/ AuxLoop

(***************************************************************************)
(* replay.ReplayTracker                                                    *)
(***************************************************************************)
\* the capacity of the queue of recorded actions
MAX_ACTIONS == 10000

\* at most this many actions are recorded in one run
MaxRecorded == 3

\* the PaintAction objects of the example at the end of replay.py
PaintActions == {"action1", "action2"}

\* CircularQueue.append: the item goes to the rear; a full queue raises
append(queue, item) ==
    IF Len(queue) >= MAX_ACTIONS
    THEN [queue |-> queue, raised |-> TRUE]
    ELSE [queue |-> Append(queue, item), raised |-> FALSE]

\* CircularQueue.serve: the item at the front is taken out and returned; an
\* empty queue raises
serve(queue) ==
    IF queue = <<>>
    THEN [queue |-> queue, raised |-> TRUE, item |-> None]
    ELSE [queue |-> Tail(queue), raised |-> FALSE, item |-> Head(queue)]

\* PaintAction.undo_apply and PaintAction.redo_apply: the grid is the list of
\* the calls made on it, the latest last; neither raises
undo_apply(action, grid_) ==
    Append(grid_, [action |-> action, method |-> "undo_apply"])

redo_apply(action, grid_) ==
    Append(grid_, [action |-> action, method |-> "redo_apply"])

\* ReplayTracker.add_action: action_array is the pair <<action, is_undo>>
add_action(self, action, is_undo) ==
    IF self.end = FALSE
    THEN LET action_array == <<action, is_undo>>
             r == append(self.actions, action_array)
         IN  [actions |-> r.queue, end |-> self.end, raised |-> r.raised]
    ELSE [actions |-> self.actions, end |-> self.end, raised |-> TRUE]

\* mutant: an entry added as an undo is played with redo_apply
play_next_action_redo_always(self, grid_) ==
    LET r == serve(self.actions) IN
    IF r.raised
    THEN [actions |-> r.queue, end |-> FALSE, grid |-> grid_, ret |-> TRUE]
    ELSE LET action == r.item[1]
             is_undo == r.item[2]
         IN  [actions |-> r.queue, end |-> self.end,
              grid |-> redo_apply(action, grid_),
              ret |-> FALSE]

\* ReplayTracker.play_next_action: whatever is raised inside try ends in the
\* except branch
play_next_action(self, grid_) ==
    LET r == serve(self.actions) IN
    IF r.raised
    THEN [actions |-> r.queue, end |-> FALSE, grid |-> grid_, ret |-> TRUE]
    ELSE LET action == r.item[1]
             is_undo == r.item[2]
         IN  [actions |-> r.queue, end |-> self.end,
              grid |-> IF is_undo THEN undo_apply(action, grid_)
                                  ELSE redo_apply(action, grid_),
              ret |-> FALSE]

\* ReplayTracker.__init__; added lists the pairs that add_action has put in
\* the queue, in the order of the calls
ReplayInit ==
    /\ actions = <<>>
    /\ end = FALSE
    /\ grid = <<>>
    /\ rlast = NoOp
    /\ added = <<>>

AddAction(action, is_undo) ==
    LET r == add_action([actions |-> actions, end |-> end], action, is_undo) IN
    /\ Len(added) < MaxRecorded
    /\ actions' = r.actions
    /\ added' = IF r.raised THEN added ELSE Append(added, <<action, is_undo>>)
    /\ rlast' = [op |-> "add_action", raised |-> r.raised]
    /\ UNCHANGED <<end, grid>>
    /\ UNCHANGED <<bstVars, tdbtVars, orderingVars>>

\* ReplayTracker.start_replay
StartReplay ==
    /\ end' = TRUE
    /\ rlast' = [op |-> "start_replay"]
    /\ UNCHANGED <<actions, grid, added>>
    /\ UNCHANGED <<bstVars, tdbtVars, orderingVars>>

PlayNextAction ==
    LET r == play_next_action([actions |-> actions, end |-> end], grid) IN
    /\ actions' = r.actions
    /\ end' = r.end
    /\ grid' = r.grid
    /\ rlast' = [op |-> "play_next_action", ret |-> r.ret, actions |-> actions,
                 end |-> end, grid |-> grid]
    /\ UNCHANGED added
    /\ UNCHANGED <<bstVars, tdbtVars, orderingVars>>

ReplayNext ==
    \/ \E action \in PaintActions, is_undo \in BOOLEAN : AddAction(action, is_undo)
    \/ StartReplay
    \/ PlayNextAction

(***************************************************************************)
(* Specifications: one per structure, the other structures left untouched. *)
(***************************************************************************)
Init ==
    /\ BstInit
    /\ TdbtInit
    /\ coordinate_list = <<>> /\ ordering = NoOp /\ stack = <<>>
    /\ ReplayInit

Next == BstNext

Spec == Init /\ [][Next]_vars

ReplaySpec == Init /\ [][ReplayNext]_vars

TdbtSpec == Init /\ [][TdbtNext]_vars

\* a call of __setitem__ has not returned
Inserting == tcall # None

\* the interpreter keeps running a call that has started
KeepsInserting == WF_vars(InsertAuxEnter \/ InsertAuxReturn)

TdbtStepSpec == Init /\ [][TdbtStepNext]_vars /\ KeepsInserting

InitOrdering ==
    /\ root = None /\ length = 0 /\ last = NoOp /\ stored = {}
    /\ troot = None /\ tlength = 0 /\ tlast = NoOp /\ tinserted = <<>>
    /\ tcall = None
    /\ actions = <<>> /\ end = FALSE /\ grid = <<>> /\ rlast = NoOp
    /\ added = <<>>
    /\ OrderingInit
    /\ stack = <<>>

OrderingSpec == InitOrdering /\ [][OrderingNext]_vars

\* some call of _make_ordering_aux has not returned
Running == stack # <<>>

\* the innermost call is at its first statement
Entering == Running /\ Top.pc = "enter"

\* the interpreter keeps running a call that has started: weak fairness of
\* AuxLoop and of AuxEnter.  That of AuxEnter is written out, with the state
\* predicate Entering for its enabling condition (a call at its first
\* statement can always run it).
KeepsRunning ==
    /\ WF_vars(AuxLoop)
    /\ []<>(~Entering) \/ []<><<AuxEnter>>_vars

OrderingStepSpec ==
    InitOrdering /\ [][OrderingStepNext]_vars /\ KeepsRunning

(***************************************************************************)
(* Observations on trees used by the properties below.  They walk the      *)
(* links only and never read subtree_size or length.                       *)
(***************************************************************************)
RECURSIVE Nodes(_)
Nodes(t) == IF t = None THEN {} ELSE {t} \cup Nodes(t.left) \cup Nodes(t.right)

RECURSIVE KeysOf(_)
KeysOf(t) == IF t = None THEN {} ELSE {t.key} \cup KeysOf(t.left) \cup KeysOf(t.right)

RECURSIVE InOrder(_)
InOrder(t) == IF t = None THEN <<>> ELSE InOrder(t.left) \o <<t.key>> \o InOrder(t.right)

StrictlyAscending(s) == \A i \in 1..(Len(s) - 1) : s[i] < s[i + 1]

SizeOf(child) == IF child = None THEN 0 ELSE child.subtree_size

\* 1-indexed position of key among the keys stored in t
RankIn(t, key) == Cardinality({j \in KeysOf(t) : j <= key})

ElemsOf(s) == {s[i] : i \in 1..Len(s)}

(***************************************************************************)
(* C1: after any sequence of inserts and deletes, successful or failing,   *)
(* the in-order traversal is strictly ascending: at every node the keys of *)
(* the left subtree are smaller and those of the right subtree greater.    *)
(***************************************************************************)
C1_BstOrdered ==
    /\ StrictlyAscending(InOrder(root))
    /\ \A n \in Nodes(root) :
          /\ \A k \in KeysOf(n.left) : k < n.key
          /\ \A k \in KeysOf(n.right) : k > n.key

\* a node with two children was deleted and its successor was not its right child
C1_Witness ==
    /\ last.op = "delete" /\ ~last.raised
    /\ last.root.key = last.key
    /\ last.root.left # None /\ last.root.right # None
    /\ last.root.right.left # None
    /\ root.key = last.root.right.left.key

(***************************************************************************)
(* C2: after any sequence of inserts and deletes, every node satisfies     *)
(* subtree_size = 1 + size(left) + size(right), an absent child counting 0.*)
(***************************************************************************)
C2_SizeInvariant ==
    \A n \in Nodes(root) : n.subtree_size = 1 + SizeOf(n.left) + SizeOf(n.right)

\* a node below the root that has two children was deleted
C2_Witness ==
    /\ last.op = "delete" /\ ~last.raised
    /\ last.root.key < last.key
    /\ last.root.right.key = last.key
    /\ last.root.right.left # None /\ last.root.right.right # None
    /\ root.subtree_size = 3

(***************************************************************************)
(* C4: ratio(x, y) on a container of total keys returns exactly the keys   *)
(* whose in-order rank r satisfies                                         *)
(*   ceil(x/100*total) + 1 <= r <= total - ceil(y/100*total),              *)
(* each once; the result is empty when the lower bound exceeds the upper.  *)
(***************************************************************************)
C4_RatioBand ==
    last.op = "ratio" =>
        LET total == Cardinality(KeysOf(root))
            lo == ceil_percent(last.x, total) + 1
            hi == total - ceil_percent(last.y, total)
            band == {k \in KeysOf(root) : lo <= RankIn(root, k) /\ RankIn(root, k) <= hi}
        IN  /\ ElemsOf(last.ret) = band
            /\ Len(last.ret) = Cardinality(band)
            /\ (lo > hi => last.ret = <<>>)

\* a band strictly inside a four-key tree whose keys sit right of the root
C4_Witness ==
    /\ last.op = "ratio" /\ last.x = 125 /\ last.y = 250
    /\ length = 4 /\ root.left = None
    /\ Len(last.ret) = 2

(***************************************************************************)
(* C5: for every insertion order, ratio returns the keys of the selected   *)
(* rank band in ascending order.                                           *)
(***************************************************************************)
C5_RatioAscending ==
    last.op = "ratio" => StrictlyAscending(last.ret)

(***************************************************************************)
(* C6: in a tree holding n keys, kth_smallest(k, root) for 1 <= k <= n     *)
(* returns the node of the tree whose key is the k-th smallest stored.     *)
(***************************************************************************)
C6_KthSmallest ==
    (last.op = "kth" /\ 1 <= last.k /\ last.k <= Cardinality(KeysOf(root))) =>
        /\ last.ret \in Nodes(root)
        /\ RankIn(root, last.ret.key) = last.k

\* the answer was found in the right subtree of the root
C6_Witness ==
    /\ last.op = "kth" /\ last.k = 3
    /\ length = 4
    /\ last.ret # None
    /\ SizeOf(root.left) = 1
    /\ last.ret.key > root.key

(***************************************************************************)
(* C9: insert of a key already present raises and leaves the tree          *)
(* unchanged: same nodes, items, subtree_size everywhere and same length.  *)
(***************************************************************************)
C9_DuplicateInsert ==
    (last.op = "insert" /\ last.key \in KeysOf(last.root)) =>
        /\ last.raised
        /\ root = last.root
        /\ length = last.length

\* the duplicate sits two levels below the root and carries another item
C9_Witness ==
    /\ last.op = "insert" /\ last.raised
    /\ last.root.key # last.key
    /\ last.root.subtree_size >= 3
    /\ get_tree_node_by_key_aux(last.root, last.key).node.item # last.item
    /\ last.key \notin {n.key : n \in {last.root.left, last.root.right} \ {None}}

(***************************************************************************)
(* C10: delete of a key not present raises and leaves the tree unchanged:  *)
(* same nodes, same subtree_size on the search path and same length.       *)
(***************************************************************************)
C10_MissingDelete ==
    (last.op = "delete" /\ last.key \notin KeysOf(last.root)) =>
        /\ last.raised
        /\ root = last.root
        /\ length = last.length

\* the search for the missing key passed at least two nodes
C10_Witness ==
    /\ last.op = "delete" /\ last.raised
    /\ last.root # None
    /\ last.key > last.root.key
    /\ last.root.right # None
    /\ last.length >= 3

(***************************************************************************)
(* C11: delete of a present key (leaf, one child or two children) removes  *)
(* exactly that key: the stored keys are the old ones minus the key, every *)
(* remaining key keeps the item it had, and length is one less.            *)
(***************************************************************************)
RECURSIVE PairsOf(_)
PairsOf(t) ==
    IF t = None THEN {}
    ELSE {<<t.key, t.item>>} \cup PairsOf(t.left) \cup PairsOf(t.right)

RECURSIVE CountNodes(_)
CountNodes(t) == IF t = None THEN 0 ELSE 1 + CountNodes(t.left) + CountNodes(t.right)

C11_DeleteRemovesKey ==
    (last.op = "delete" /\ last.key \in KeysOf(last.root)) =>
        /\ ~last.raised
        /\ KeysOf(root) = KeysOf(last.root) \ {last.key}
        /\ PairsOf(root) = {pair \in PairsOf(last.root) : pair[1] # last.key}
        /\ CountNodes(root) = CountNodes(last.root) - 1
        /\ length = last.length - 1

\* a node with two children was deleted whose successor carried another item
C11_Witness ==
    /\ last.op = "delete" /\ ~last.raised
    /\ last.root.key = last.key
    /\ last.root.left # None /\ last.root.right # None
    /\ get_minimal(last.root.right).item # last.root.item
    /\ root.item # last.root.item

(***************************************************************************)
(* C12: after any sequence of inserts and deletes, lookup(key) returns the *)
(* item the key was inserted with when the key is stored and raises when   *)
(* it is not; contains(key) is true exactly when the key is stored and     *)
(* never raises.                                                           *)
(***************************************************************************)
C12_LookupContains ==
    /\ last.op = "lookup" =>
          IF \E pair \in stored : pair[1] = last.key
          THEN ~last.raised /\ <<last.key, last.ret>> \in stored
          ELSE last.raised
    /\ last.op = "contains" =>
          /\ ~last.raised
          /\ last.ret = (\E pair \in stored : pair[1] = last.key)

\* a key carrying the item "A" was found below the root of a three-key tree
\* that also holds a None payload
C12_Witness ==
    /\ last.op = "lookup" /\ ~last.raised
    /\ root.key # last.key
    /\ last.ret = "A"
    /\ Cardinality(stored) = 3
    /\ \E pair \in stored : pair[2] = "None"

(***************************************************************************)
(* C13: kth_smallest(k, root) returns None whenever k exceeds the number   *)
(* of keys in the tree or k is zero or negative, the empty tree included.  *)
(***************************************************************************)
C13_KthOutOfRange ==
    (last.op = "kth" /\ (last.k > Cardinality(KeysOf(root)) \/ last.k <= 0)) =>
        last.ret = None

\* a non-positive k on a tree whose root has no left child
C13_Witness ==
    /\ last.op = "kth" /\ last.k <= 0
    /\ root # None /\ root.left = None /\ root.right # None
    /\ last.ret = None

(***************************************************************************)
(* Observations on a ThreeDeeBeeTree: they walk the child slots only.      *)
(***************************************************************************)
RECURSIVE BeeCount(_)
RECURSIVE BeeCountSlots(_, _)
BeeCount(t) == IF t = None THEN 0 ELSE 1 + BeeCountSlots(t, 7)

BeeCountSlots(t, i) ==
    IF i < 0 THEN 0 ELSE BeeCount(t.children[i]) + BeeCountSlots(t, i - 1)

RECURSIVE PointsOf(_)
PointsOf(t) ==
    IF t = None THEN {}
    ELSE {t.key} \cup UNION {PointsOf(t.children[i]) : i \in 0..7}

(***************************************************************************)
(* C7: inserting into the ThreeDeeBeeTree a point equal to a stored point  *)
(* raises DuplicateKey and leaves the tree unchanged: no new node, same    *)
(* length, same subtree_size everywhere.                                   *)
(***************************************************************************)
C7_DuplicatePointRejected ==
    (tlast.op = "insert" /\ tlast.key \in PointsOf(tlast.root)) =>
        /\ tlast.raised
        /\ troot = tlast.root
        /\ tlength = tlast.length

(***************************************************************************)
(* C8: after any sequence of inserts, repeated points included, no two     *)
(* nodes of the ThreeDeeBeeTree hold the same point.                       *)
(***************************************************************************)
C8_NoTwoNodesSamePoint ==
    BeeCount(troot) = Cardinality(PointsOf(troot))

(***************************************************************************)
(* C14: after inserts of pairwise distinct points, for every node n and    *)
(* every child slot i of n, every point stored in the subtree under slot i *)
(* has octant index i relative to n's point.                               *)
(***************************************************************************)
RECURSIVE BeeNodes(_)
BeeNodes(t) ==
    IF t = None THEN {}
    ELSE {t} \cup UNION {BeeNodes(t.children[i]) : i \in 0..7}

\* the octant of point relative to centre, as three independent comparisons
OctantBits(point, centre) ==
    [axis \in 1..3 |-> IF point[axis] >= centre[axis] THEN 1 ELSE 0]

OctantOf(point, centre) ==
    LET b == OctantBits(point, centre) IN b[1] + 2 * b[2] + 4 * b[3]

PairwiseDistinct(list) == Cardinality(ElemsOf(list)) = Len(list)

C14_OctantInvariant ==
    PairwiseDistinct(tinserted) =>
        \A n \in BeeNodes(troot) : \A i \in 0..7 :
            \A point \in PointsOf(n.children[i]) : OctantOf(point, n.key) = i

\* a point sits two levels below the root, in another slot than its parent
C14_Witness ==
    /\ PairwiseDistinct(tinserted)
    /\ troot # None
    /\ \E i \in 0..7, j \in 0..7 :
          /\ i # j
          /\ troot.children[i] # None
          /\ troot.children[i].children[j] # None

(***************************************************************************)
(* C15: get_child_index returns (1 if x >= nx) + (2 if y >= ny) +          *)
(* (4 if z >= nz), a value in 0..7; a point equal to the node's gets 7.    *)
(***************************************************************************)
C15_ChildIndex ==
    tlast.op = "get_child_for_key" =>
        \A point \in Points :
            LET index == tlast.index[point] IN
            /\ index \in 0..7
            /\ (index % 2 = 1) <=> (point[1] >= troot.key[1])
            /\ ((index \div 2) % 2 = 1) <=> (point[2] >= troot.key[2])
            /\ ((index \div 4) % 2 = 1) <=> (point[3] >= troot.key[3])
            /\ (point = troot.key => index = 7)

\* the index 7 was returned for the node's own point and for another one,
\* and an index with set and unset bits for a third
C15_Witness ==
    /\ tlast.op = "get_child_for_key"
    /\ \E point \in Points : tlast.index[point] \in 1..6
    /\ troot.key \in Points
    /\ tlast.index[troot.key] = 7
    /\ \E point \in Points : point # troot.key /\ tlast.index[point] = 7

(***************************************************************************)
(* C16: after inserts of pairwise distinct points, lookup(p) returns the   *)
(* item inserted with p for every inserted p and raises for every other    *)
(* point; contains(p) is true exactly for the inserted points.             *)
(***************************************************************************)
\* the payload of the i-th insert is i
InsertedItem(point) == CHOOSE i \in 1..Len(tinserted) : tinserted[i] = point

C16_TdbtLookupContains ==
    PairwiseDistinct(tinserted) =>
        /\ tlast.op = "lookup" =>
              \A point \in Points :
                  IF point \in ElemsOf(tinserted)
                  THEN /\ ~tlast.ret[point].raised
                       /\ tlast.ret[point].ret = InsertedItem(point)
                  ELSE tlast.ret[point].raised
        /\ tlast.op = "contains" =>
              \A point \in Points :
                  /\ ~tlast.ret[point].raised
                  /\ tlast.ret[point].ret = (point \in ElemsOf(tinserted))

\* a point inserted third or later was found below a child of the root, and
\* some point was not found
C16_Witness ==
    /\ PairwiseDistinct(tinserted)
    /\ tlast.op = "lookup"
    /\ \E point \in Points :
          /\ ~tlast.ret[point].raised
          /\ tlast.ret[point].ret >= 3
          /\ \A i \in 0..7 : troot.children[i] # None => troot.children[i].key # point
          /\ troot.key # point
    /\ \E point \in Points : tlast.ret[point].raised

(***************************************************************************)
(* C17: after any sequence of inserts every node's subtree_size is 1 plus  *)
(* the subtree_size of its non-empty child slots, and the tree's length is *)
(* the root's subtree_size (0 for the empty tree); after the inserts of    *)
(* (3,3,3), (1,5,2), (4,3,1), (5,4,0) the root's child for (4,3,1) has     *)
(* subtree_size 2.                                                         *)
(***************************************************************************)
RECURSIVE SumSizes(_, _)
SumSizes(n, i) ==
    IF i < 0 THEN 0
    ELSE (IF n.children[i] = None THEN 0 ELSE n.children[i].subtree_size)
         + SumSizes(n, i - 1)

C17_TdbtSizes ==
    /\ \A n \in BeeNodes(troot) : n.subtree_size = 1 + SumSizes(n, 7)
    /\ tlength = (IF troot = None THEN 0 ELSE troot.subtree_size)
    /\ tlength = BeeCount(troot)
    /\ tlast.op = "example" => tlast.ret = 2

\* the example has run to its print
C17_Witness ==
    /\ tlast.op = "example"
    /\ tinserted = ExamplePoints
    /\ tlength = 4
    /\ troot.children[3] # None /\ troot.children[3].key = <<4, 3, 1>>

(***************************************************************************)
(* Observations on lists of points.                                        *)
(***************************************************************************)
Occurrences(list, point) == Cardinality({i \in 1..Len(list) : list[i] = point})

IsPermutation(s, t) ==
    /\ Len(s) = Len(t)
    /\ \A point \in ElemsOf(s) \cup ElemsOf(t) :
          Occurrences(s, point) = Occurrences(t, point)

SharesCoordinate(list) ==
    \E i, j \in 1..Len(list), axis \in 1..3 : i # j /\ list[i][axis] = list[j][axis]

(***************************************************************************)
(* C3: make_ordering returns, for every input list, a permutation of the   *)
(* input and never fails, also when 18 or more distinct points share a     *)
(* coordinate value on some axis.                                          *)
(***************************************************************************)
C3_OrderingIsPermutation ==
    ordering.op = "make_ordering" =>
        /\ ~ordering.raised
        /\ IsPermutation(ordering.ret, coordinate_list)

(***************************************************************************)
(* The central band of an axis, from the coordinate values alone: with m   *)
(* values on the axis and e = ceil(m / 8), the values of rank e+1 .. m-e.  *)
(***************************************************************************)
AxisValues(list, axis) == {list[i][axis] : i \in 1..Len(list)}

RankOf(value, values) == Cardinality({w \in values : w <= value})

InBand(value, values) ==
    LET m == Cardinality(values)
        e == (m + 7) \div 8
    IN  RankOf(value, values) \in (e + 1)..(m - e)

CentralIndices(list) ==
    {i \in 1..Len(list) :
        \A axis \in 1..3 : InBand(list[i][axis], AxisValues(list, axis))}

FirstCentral(list) ==
    CHOOSE i \in CentralIndices(list) : \A j \in CentralIndices(list) : i <= j

\* the points of list other than centre in octant index of centre, in the
\* order of list
Bucket(list, centre, index) ==
    SelectSeq(list, LAMBDA point : point # centre /\ OctantOf(point, centre) = index)

RECURSIVE BucketOffset(_, _, _)
BucketOffset(list, centre, index) ==
    IF index = 0 THEN 1
    ELSE BucketOffset(list, centre, index - 1) + Len(Bucket(list, centre, index - 1))

\* the part of the output that came from the recursive call on bucket index
OutputOfBucket(index) ==
    LET centre == ordering.ret[1]
        from == BucketOffset(coordinate_list, centre, index)
    IN  SubSeq(ordering.ret, from + 1,
               from + Len(Bucket(coordinate_list, centre, index)))

RootSelected ==
    /\ ordering.op = "make_ordering"
    /\ ~ordering.raised
    /\ Len(coordinate_list) >= 18
    /\ CentralIndices(coordinate_list) # {}

(***************************************************************************)
(* C18: make_ordering returns every list of fewer than 18 points, the      *)
(* empty one included, in the input order; so does every recursive call on *)
(* an octant bucket of fewer than 18 points.                               *)
(***************************************************************************)
C18_BaseCaseIdentity ==
    /\ (ordering.op = "make_ordering" /\ Len(coordinate_list) < 18) =>
          /\ ~ordering.raised
          /\ ordering.ret = coordinate_list
    /\ RootSelected =>
          \A index \in 0..7 :
              LET bucket == Bucket(coordinate_list, ordering.ret[1], index) IN
              Len(bucket) < 18 => OutputOfBucket(index) = bucket

\* a list of 17 points came back as it was although a central point that is
\* not its first point exists
C18_Witness ==
    /\ ordering.op = "make_ordering"
    /\ Len(coordinate_list) = 17
    /\ ordering.ret = coordinate_list
    /\ CentralIndices(coordinate_list) # {}
    /\ FirstCentral(coordinate_list) > 1

(***************************************************************************)
(* C19: for a list of 18 or more points make_ordering selects as root the  *)
(* first point in input order whose x, y and z each lie in the central     *)
(* band of their axis, and that point is the first element of the output.  *)
(***************************************************************************)
C19_RootIsFirstCentral ==
    (/\ ordering.op = "make_ordering"
     /\ Len(coordinate_list) >= 18
     /\ CentralIndices(coordinate_list) # {}) =>
        /\ ~ordering.raised
        /\ ordering.ret[1] = coordinate_list[FirstCentral(coordinate_list)]

\* what the code does deliver: the same whenever the call returns
RootIsFirstCentralWhenReturned ==
    RootSelected =>
        ordering.ret[1] = coordinate_list[FirstCentral(coordinate_list)]

(***************************************************************************)
(* C20: when a list of 18 or more points has no point central on all three *)
(* axes, make_ordering returns the list unchanged and raises no error; so  *)
(* does each recursive call on such a bucket.                              *)
(***************************************************************************)
C20_FallbackUnchanged ==
    /\ (/\ ordering.op = "make_ordering"
        /\ Len(coordinate_list) >= 18
        /\ CentralIndices(coordinate_list) = {}) =>
          /\ ~ordering.raised
          /\ ordering.ret = coordinate_list
    /\ RootSelected =>
          \A index \in 0..7 :
              LET bucket == Bucket(coordinate_list, ordering.ret[1], index) IN
              (Len(bucket) >= 18 /\ CentralIndices(bucket) = {}) =>
                  OutputOfBucket(index) = bucket

\* what the code does deliver: the same whenever the call returns
FallbackUnchangedWhenReturned ==
    (/\ ordering.op = "make_ordering"
     /\ ~ordering.raised
     /\ Len(coordinate_list) >= 18
     /\ CentralIndices(coordinate_list) = {}) => ordering.ret = coordinate_list

\* the fallback was taken by the call on the whole list
FallbackTaken ==
    /\ ordering.op = "make_ordering"
    /\ ~ordering.raised
    /\ Len(coordinate_list) >= 18
    /\ CentralIndices(coordinate_list) = {}

\* the fallback was taken by a recursive call
FallbackTakenBelow ==
    /\ RootSelected
    /\ \E index \in 0..7 :
          LET bucket == Bucket(coordinate_list, ordering.ret[1], index) IN
          Len(bucket) >= 18 /\ CentralIndices(bucket) = {}

(***************************************************************************)
(* C29: after any sequence of inserts and deletes, failing ones included,  *)
(* the length of the tree is the number of its nodes and is the root's     *)
(* subtree_size (0 for the empty tree), so the total that ratio takes its  *)
(* percentages of is the number of ranks.                                  *)
(***************************************************************************)
Max(a, b) == IF a >= b THEN a ELSE b

C29_LengthAgrees ==
    /\ length = CountNodes(root)
    /\ length = (IF root = None THEN 0 ELSE root.subtree_size)
    /\ last.op = "ratio" =>
          LET n == CountNodes(root) IN
          Len(last.ret) = Max(0, n - ceil_percent(last.y, n) - ceil_percent(last.x, n))

\* a delete failed on a tree of three or more nodes
C29_Witness ==
    /\ last.op = "delete"
    /\ last.raised
    /\ length >= 3
    /\ root.left # None /\ root.right # None

(***************************************************************************)
(* C30: inserting an absent key and then deleting that key restores the    *)
(* tree exactly: shape, key, item and subtree_size of every node, and the  *)
(* length.                                                                 *)
(***************************************************************************)
C30_InsertDeleteRestores ==
    (last.op = "delete" /\ last.undoes # None) =>
        /\ ~last.raised
        /\ root = last.undoes.root
        /\ length = last.undoes.length

\* the key went in and out two or more levels below the root
C30_Witness ==
    /\ last.op = "delete"
    /\ last.undoes # None
    /\ root = last.undoes.root
    /\ length >= 3
    /\ last.root.key # last.key
    /\ last.root.left # None => last.root.left.key # last.key
    /\ last.root.right # None => last.root.right.key # last.key

(***************************************************************************)
(* C21: when a root is selected the output is the root followed by the     *)
(* orderings of the eight octant buckets in the order 0..7, bucket i being *)
(* the other points of octant i relative to the root, in input order; so   *)
(* the points of bucket i come before those of bucket j whenever i < j.    *)
(***************************************************************************)
C21_OutputByOctants ==
    RootSelected =>
        LET centre == ordering.ret[1] IN
        /\ Len(ordering.ret) = BucketOffset(coordinate_list, centre, 7)
                               + Len(Bucket(coordinate_list, centre, 7))
        /\ \A index \in 0..7 :
              LET bucket == Bucket(coordinate_list, centre, index) IN
              /\ IsPermutation(OutputOfBucket(index), bucket)
              /\ OutputOfBucket(index) = make_ordering(bucket).ret
        /\ \A i \in 2..Len(ordering.ret), j \in 2..Len(ordering.ret) :
              OctantOf(ordering.ret[i], centre) < OctantOf(ordering.ret[j], centre)
                  => i < j

\* four octants hold points and the ordering of one of them is not its
\* input order
C21_Witness ==
    /\ RootSelected
    /\ Cardinality({index \in 0..7 :
                       Bucket(coordinate_list, ordering.ret[1], index) # <<>>}) >= 4
    /\ \E index \in 0..7 :
          OutputOfBucket(index) # Bucket(coordinate_list, ordering.ret[1], index)

(***************************************************************************)
(* C27: a root selected from N >= 18 points whose coordinates are pairwise *)
(* distinct on each axis has, on each axis, at least ceil(N/8) other       *)
(* points strictly below it and at least ceil(N/8) strictly above it, so   *)
(* neither side is more than 7 times the other.                            *)
(***************************************************************************)
DistinctOnAxes(list) ==
    \A axis \in 1..3 : Cardinality(AxisValues(list, axis)) = Len(list)

Below(list, centre, axis) ==
    Cardinality({i \in 1..Len(list) : list[i][axis] < centre[axis]})

Above(list, centre, axis) ==
    Cardinality({i \in 1..Len(list) : list[i][axis] > centre[axis]})

SplitsWell(list, centre) ==
    LET e == (Len(list) + 7) \div 8 IN
    \A axis \in 1..3 :
        /\ Below(list, centre, axis) >= e
        /\ Above(list, centre, axis) >= e
        /\ Below(list, centre, axis) <= 7 * Above(list, centre, axis)
        /\ Above(list, centre, axis) <= 7 * Below(list, centre, axis)

\* the buckets of the call on the whole list in which a root is selected too
BucketsWithRoot ==
    {index \in 0..7 :
        LET bucket == Bucket(coordinate_list, ordering.ret[1], index) IN
        Len(bucket) >= 18 /\ CentralIndices(bucket) # {}}

C27_RootSplitsWell ==
    (RootSelected /\ DistinctOnAxes(coordinate_list)) =>
        /\ SplitsWell(coordinate_list, ordering.ret[1])
        /\ \A index \in BucketsWithRoot :
              SplitsWell(Bucket(coordinate_list, ordering.ret[1], index),
                         OutputOfBucket(index)[1])

\* the root has exactly ceil(N/8) points below it on some axis, a side of
\* more than 17 points, and a root was selected in one of its buckets too
C27_Witness ==
    /\ RootSelected
    /\ DistinctOnAxes(coordinate_list)
    /\ \E axis \in 1..3 :
          /\ Below(coordinate_list, ordering.ret[1], axis)
                 = (Len(coordinate_list) + 7) \div 8
          /\ Above(coordinate_list, ordering.ret[1], axis) > 17
    /\ BucketsWithRoot # {}

(***************************************************************************)
(* C25: the tree built by inserting the output of make_ordering in order   *)
(* has the first output element at its root and, when a root was selected  *)
(* for the whole list, holds in the root's child slot i exactly the points *)
(* of octant bucket i, under that bucket's own selected root if it has one.*)
(***************************************************************************)
Built ==
    /\ ordering.op = "make_ordering"
    /\ ~ordering.raised
    /\ tlength = Len(ordering.ret)

C25_TreeFollowsOrdering ==
    Built =>
        /\ ordering.ret = <<>> => troot = None
        /\ ordering.ret # <<>> => troot.key = ordering.ret[1]
        /\ RootSelected =>
              \A index \in 0..7 :
                  LET bucket == Bucket(coordinate_list, ordering.ret[1], index)
                      subtree == troot.children[index]
                  IN  /\ PointsOf(subtree) = ElemsOf(bucket)
                      /\ BeeCount(subtree) = Len(bucket)
                      /\ index \in BucketsWithRoot =>
                            subtree.key = bucket[FirstCentral(bucket)]

\* four child slots of the root are filled and one of them holds a bucket
\* with a root of its own that is not the bucket's first point
C25_Witness ==
    /\ Built
    /\ RootSelected
    /\ Cardinality({index \in 0..7 : troot.children[index] # None}) >= 4
    /\ \E index \in BucketsWithRoot :
          troot.children[index].key
              # Bucket(coordinate_list, ordering.ret[1], index)[1]

(***************************************************************************)
(* C26: in the tree built from the output of make_ordering, at every node  *)
(* and on each axis, the descendants on the negative side and those on the *)
(* positive side are at most 1:7 in number, or both sides hold at most 17. *)
(***************************************************************************)
Descendants(n) == UNION {PointsOf(n.children[i]) : i \in 0..7}

NegativeSide(n, axis) ==
    Cardinality({point \in Descendants(n) : point[axis] < n.key[axis]})

PositiveSide(n, axis) ==
    Cardinality({point \in Descendants(n) : point[axis] >= n.key[axis]})

C26_TreeBalanced ==
    Built =>
        \A n \in BeeNodes(troot) : \A axis \in 1..3 :
            \/ /\ NegativeSide(n, axis) <= 7 * PositiveSide(n, axis)
               /\ PositiveSide(n, axis) <= 7 * NegativeSide(n, axis)
            \/ /\ NegativeSide(n, axis) <= 17
               /\ PositiveSide(n, axis) <= 17

\* the root has more than 17 descendants on one side and a child with 17 or
\* more descendants
C26_Witness ==
    /\ Built
    /\ troot # None
    /\ \E axis \in 1..3 : PositiveSide(troot, axis) > 17
    /\ \E index \in 0..7 : BeeCount(troot.children[index]) >= 18

(***************************************************************************)
(* C28: make_ordering terminates on every input list: each recursive call  *)
(* is given a bucket of fewer points than the list of its caller, and the  *)
(* call ends by returning a list or by raising.                            *)
(***************************************************************************)
CallShrinks ==
    (stack # <<>> /\ Len(stack') > Len(stack)) =>
        Len(stack'[Len(stack')].coordinate_list) < Len(Top.coordinate_list)

Returned ==
    /\ ordering.op = "make_ordering"
    /\ stack = <<>>
    /\ ordering.raised \in BOOLEAN
    /\ ordering.raised \/ IsPermutation(ordering.ret, coordinate_list)

C28_MakeOrderingTerminates == [][CallShrinks]_vars /\ (Running ~> Returned)

\* a call returned that had called itself on a bucket, and that call on a
\* bucket of its own
C28_Witness ==
    /\ Returned
    /\ ~ordering.raised
    /\ ordering.depth >= 3

\* the calls of _make_ordering_aux one by one end as the call as a whole
StepwiseAgrees ==
    Returned =>
        /\ ordering.raised = make_ordering(coordinate_list).raised
        /\ ordering.ret = make_ordering(coordinate_list).ret

(***************************************************************************)
(* C24: ThreeDeeBeeTree insert terminates for every tree and every point,  *)
(* a point equal to a stored point included: every recursive call of       *)
(* insert_aux is given a subtree of fewer nodes than the one of its        *)
(* caller, and every call of __setitem__ that has started returns.         *)
(***************************************************************************)
InsertDescends ==
    (/\ tcall # None
     /\ tcall' # None
     /\ Len(tcall'.stack) > Len(tcall.stack)) =>
        /\ NodeAt(troot, TopCall) # None
        /\ BeeCount(NodeAt(troot', tcall'.stack[Len(tcall'.stack)]))
               < BeeCount(NodeAt(troot, TopCall))

C24_InsertTerminates == [][InsertDescends]_vars /\ (Inserting ~> ~Inserting)

\* a point was inserted that is equal to a stored point which has children,
\* and the call returned
C24_Witness ==
    /\ tcall = None
    /\ tlast.op = "insert"
    /\ tlast.root # None
    /\ \E n \in BeeNodes(tlast.root) :
          /\ n.key = tlast.key
          /\ n.children[7] # None
    /\ BeeCount(troot) = BeeCount(tlast.root) + 1

\* the calls of insert_aux one by one build the tree of the call as a whole
InsertStepwiseAgrees ==
    (tcall = None /\ tlast.op = "insert") =>
        /\ troot = tdbt_insert_aux(tlast.root, tlast.key, tlast.item)
        /\ tlength = tlast.length + 1

(***************************************************************************)
(* C23: the ReplayTracker plays the recorded actions in the order they     *)
(* were added, with undo_apply for the entries added with is_undo = True   *)
(* and redo_apply for the others, every such call of play_next_action      *)
(* returning False; the call made when no recorded action remains returns  *)
(* True and leaves the grid as it was.                                     *)
(***************************************************************************)
Applied(action_array) ==
    [action |-> action_array[1],
     method |-> IF action_array[2] THEN "undo_apply" ELSE "redo_apply"]

====
